---- MODULE Spec2Model ----
(***************************************************************************)
(* Model of reorder.py: batch_inference_rules walks the PageXML files of a *)
(* directory; for each file extract_features_from_xml builds the table of  *)
(* text regions, the table is sorted by (page_side, y_min, x_min), one     *)
(* forward pass compares each row with the next one and exchanges the      *)
(* sequential_order of a contained pair (locking both rows), the rows that *)
(* were never swapped get their position, and the result is written.       *)
(* Row positions and sequential_order values are 0-based as in the code;   *)
(* TLA+ sequences are 1-based, so row i of the code is df[i + 1].          *)
(***************************************************************************)
EXTENDS Integers, Sequences, FiniteSets, TLC

\* ------------------------------------------------------------------ bounds
MaxY == 2
MaxRegions == 3
MaxFiles == 2

VARIABLES files, f, pc, df, i, outcome, written

vars == <<files, f, pc, df, i, outcome, written>>

\* ------------------------------------------------------------------ inputs
\* imageWidth, imageHeight: a landscape spread (fold at x = 1) and a page that
\* is not wider than tall (no fold).
PageSizes == {<<2, 1>>, <<2, 2>>}

\* x extents <<x_min, x_max>> on a page of width 2: left of the fold, across
\* the fold, right of the fold.
Columns == {<<0, 0>>, <<0, 1>>, <<1, 1>>}

\* y extents <<y_min, y_max>>: one row band, or the whole height.
Rows == {<<a, a + 1>> : a \in 0..(MaxY - 1)} \cup {<<0, MaxY>>}

\* The point list of a Coords element, here two opposite corners: top-right
\* first, bottom-left second.
BoxPolygon(column, row) == << <<column[2], row[1]>>, <<column[1], row[2]>> >>

BoxPolygons == {BoxPolygon(c, r) : c \in Columns, r \in Rows}

\* A Coords element without points, and a polygon of zero height.
EmptyPolygon == <<>>

FlatPolygon == BoxPolygon(<<0, 1>>, <<0, 0>>)

\* The ReadingOrder/OrderedGroup element: missing, present without children,
\* present with RegionRefIndexed children.
OrderedGroups == {"absent", "empty", "refs"}

SeqsUpTo(S, n) == UNION {[1..k -> S] : k \in 0..n}

MkPage(size, og, polys) ==
    [width |-> size[1], height |-> size[2], ordered_group |-> og,
     regions |-> [k \in 1..Len(polys) |-> [id |-> k, points |-> polys[k]]]]

\* Pages of well-formed regions with a reading order.
GeometryPages ==
    {MkPage(s, "refs", ps) : s \in PageSizes, ps \in SeqsUpTo(BoxPolygons, MaxRegions)}

\* Pages that vary the reading order element and hold malformed regions.
StructurePages ==
    {MkPage(<<2, 1>>, og, ps) :
        og \in OrderedGroups,
        ps \in {<<>>, <<BoxPolygon(<<0, 1>>, <<0, 1>>)>>}}
    \cup
    {MkPage(<<2, 1>>, "refs", ps) :
        ps \in {<<EmptyPolygon>>, <<FlatPolygon>>,
                <<EmptyPolygon, BoxPolygon(<<0, 1>>, <<0, 1>>)>>}}

\* The worked example of the containment rule: A = bbox(0,0,400,200) and
\* B = bbox(50,50,150,150), both on the left half of a 1000 x 600 spread.
ScenarioPage ==
    [width |-> 1000, height |-> 600, ordered_group |-> "refs",
     regions |-> << [id |-> 1, points |-> BoxPolygon(<<0, 400>>, <<0, 200>>)],
                    [id |-> 2, points |-> BoxPolygon(<<50, 150>>, <<50, 150>>)] >>]

\* The XML files of the directory: none, one page, or a batch of several.
Directories ==
    {<<>>} \cup {<<p>> : p \in GeometryPages \cup {ScenarioPage}}
           \cup {d \in SeqsUpTo(StructurePages, MaxFiles) : Len(d) >= 1}

\* -------------------------------------------------- extract_features_from_xml
MinOf(S) == CHOOSE m \in S : \A n \in S : m <= n
MaxOf(S) == CHOOSE m \in S : \A n \in S : m >= n

Xs(points) == {points[k][1] : k \in DOMAIN points}
Ys(points) == {points[k][2] : k \in DOMAIN points}

RECURSIVE SumX(_)
SumX(points) == IF Len(points) = 0 THEN 0 ELSE points[1][1] + SumX(Tail(points))

\* Twice bookfold_centre (page_width / 2 if page_width > page_height else 0).
TwiceBookfoldCentre(page) == IF page.width > page.height THEN page.width ELSE 0

\* page_side = 0 if avg_x < bookfold_centre else 1, with avg_x the mean of
\* the x coordinates: sum / len < fold  <=>  2 * sum < 2 * fold * len.
PageSide(points, page) ==
    IF 2 * SumX(points) < TwiceBookfoldCentre(page) * Len(points) THEN 0 ELSE 1

\* min() of an empty point list raises ValueError; width / height raises
\* ZeroDivisionError for a polygon of zero height.
RaisesOnRegion(points) ==
    IF Len(points) = 0 THEN TRUE
    ELSE MaxOf(Ys(points)) - MinOf(Ys(points)) = 0

ExtractRow(region, page) ==
    [id |-> region.id,
     x_min |-> MinOf(Xs(region.points)), x_max |-> MaxOf(Xs(region.points)),
     y_min |-> MinOf(Ys(region.points)), y_max |-> MaxOf(Ys(region.points)),
     page_side |-> PageSide(region.points, page)]

\* "if ordered_group:" is the truth value of an Element: false for None and
\* for an element without children.
OrderedGroupTruthy(page) == page.ordered_group = "refs"

ReturnsNone(page) == ~OrderedGroupTruthy(page) \/ Len(page.regions) = 0

ExtractRaises(page) ==
    /\ ~ReturnsNone(page)
    /\ \E k \in DOMAIN page.regions : RaisesOnRegion(page.regions[k].points)

ExtractFeatures(page) == [k \in DOMAIN page.regions |-> ExtractRow(page.regions[k], page)]

\* ------------------------------------------------------------- sort_values
KeyLessEq(a, b) ==
    \/ a.page_side < b.page_side
    \/ /\ a.page_side = b.page_side
       /\ \/ a.y_min < b.y_min
          \/ a.y_min = b.y_min /\ a.x_min <= b.x_min

\* Rows with equal keys keep the order in which they were appended.
RECURSIVE InsertRow(_, _)
InsertRow(sorted, row) ==
    IF Len(sorted) = 0 THEN <<row>>
    ELSE IF KeyLessEq(sorted[Len(sorted)], row) THEN Append(sorted, row)
    ELSE Append(InsertRow(SubSeq(sorted, 1, Len(sorted) - 1), row), sorted[Len(sorted)])

RECURSIVE SortValues(_)
SortValues(rows) ==
    IF Len(rows) = 0 THEN <<>>
    ELSE InsertRow(SortValues(SubSeq(rows, 1, Len(rows) - 1)), rows[Len(rows)])

\* features_df['sequential_order'] = 0; features_df['swapped'] = False
AddColumns(rows) ==
    [k \in DOMAIN rows |->
        [id |-> rows[k].id, x_min |-> rows[k].x_min, x_max |-> rows[k].x_max,
         y_min |-> rows[k].y_min, y_max |-> rows[k].y_max,
         page_side |-> rows[k].page_side, sequential_order |-> 0, swapped |-> FALSE]]

\* ------------------------------------------------------- the comparison pass
\* Mutant: the lock is never consulted.
LockedNever(current_box, next_box) == FALSE

Locked(current_box, next_box) == current_box.swapped \/ next_box.swapped

\* Mutant: the page sides are not compared.
SameSideAlways(current_box, next_box) == TRUE

SameSide(current_box, next_box) == current_box.page_side = next_box.page_side

VerticallyContained(current_box, next_box) ==
    next_box.y_max <= current_box.y_max /\ next_box.y_min >= current_box.y_min

\* Mutant: both x conditions are required.
HorizontallyOffsetBoth(current_box, next_box) ==
    next_box.x_min > current_box.x_min /\ next_box.x_max < current_box.x_max

HorizontallyOffset(current_box, next_box) ==
    next_box.x_min > current_box.x_min \/ next_box.x_max < current_box.x_max

SwapCondition(current_box, next_box) ==
    /\ SameSide(current_box, next_box)
    /\ VerticallyContained(current_box, next_box)
    /\ HorizontallyOffset(current_box, next_box)

\* One iteration of "for i in range(len(features_df) - 1)".
ScanIteration(d, n) ==
    IF Locked(d[n + 1], d[n + 2]) THEN d
    ELSE IF SwapCondition(d[n + 1], d[n + 2])
    THEN [d EXCEPT ![n + 1].sequential_order = n + 1, ![n + 1].swapped = TRUE,
                   ![n + 2].sequential_order = n, ![n + 2].swapped = TRUE]
    ELSE [d EXCEPT ![n + 1].sequential_order = n, ![n + 2].sequential_order = n + 1]

\* Mutant: the loop index does not advance.
NextIndexStuck(n) == n

NextIndex(n) == n + 1

\* Mutant: the closing loop over the unswapped rows is missing.
NormaliseNothing(d) == d

\* The rows that were not swapped get their position.
NormaliseRows(d) ==
    [k \in DOMAIN d |->
        IF d[k].swapped THEN d[k] ELSE [d[k] EXCEPT !.sequential_order = k - 1]]

\* The whole computation of one page as a function of its table.
RECURSIVE ScanFrom(_, _)
ScanFrom(d, n) ==
    IF n >= Len(d) - 1 THEN d ELSE ScanFrom(ScanIteration(d, n), NextIndex(n))

OrderRows(rows) == NormaliseRows(ScanFrom(AddColumns(rows), 0))

\* What is handed to update_reading_order_in_xml: region id -> sequential_order.
OrderById(d) ==
    [r \in {d[k].id : k \in DOMAIN d} |->
        d[CHOOSE k \in DOMAIN d : d[k].id = r].sequential_order]

\* ---------------------------------------------------------------- the batch
\* Before the directory is listed: nothing read, nothing written.
Init ==
    /\ files = <<>>
    /\ f = 1
    /\ pc = "start"
    /\ df = <<>>
    /\ i = 0
    /\ outcome = <<>>
    /\ written = <<>>

AfterPage == IF f + 1 > Len(files) THEN "done" ELSE "file"

AfterSort(d) == IF 0 < Len(d) - 1 THEN "scan" ELSE "normalise"

\* xml_files = [f for f in os.listdir(directory) ...]; if not xml_files: return
Start ==
    /\ pc = "start"
    /\ \E d \in Directories :
          /\ files' = d
          /\ outcome' = [k \in DOMAIN d |-> "pending"]
          /\ written' = [k \in DOMAIN d |-> <<>>]
          /\ pc' = IF Len(d) = 0 THEN "done" ELSE "file"
    /\ UNCHANGED <<f, df, i>>

\* features_df is None: print "... Skipping..." and continue
SkipPage ==
    /\ pc = "file"
    /\ ReturnsNone(files[f])
    /\ outcome' = [outcome EXCEPT ![f] = "skipped"]
    /\ f' = f + 1
    /\ pc' = AfterPage
    /\ UNCHANGED <<files, df, i, written>>

\* An exception of extract_features_from_xml is caught nowhere.
ExtractFails ==
    /\ pc = "file"
    /\ ExtractRaises(files[f])
    /\ pc' = "aborted"
    /\ UNCHANGED <<files, f, df, i, outcome, written>>

ExtractAndSort ==
    /\ pc = "file"
    /\ ~ReturnsNone(files[f])
    /\ ~ExtractRaises(files[f])
    /\ df' = AddColumns(SortValues(ExtractFeatures(files[f])))
    /\ i' = 0
    /\ pc' = AfterSort(df')
    /\ UNCHANGED <<files, f, outcome, written>>

ScanStep ==
    /\ pc = "scan"
    /\ df' = ScanIteration(df, i)
    /\ i' = NextIndex(i)
    /\ pc' = IF i' < Len(df) - 1 THEN "scan" ELSE "normalise"
    /\ UNCHANGED <<files, f, outcome, written>>

Normalise ==
    /\ pc = "normalise"
    /\ df' = NormaliseRows(df)
    /\ pc' = "write"
    /\ UNCHANGED <<files, f, i, outcome, written>>

\* update_reading_order_in_xml returns without saving when the file has no
\* ReadingOrder/OrderedGroup element.
Write ==
    /\ pc = "write"
    /\ IF files[f].ordered_group = "absent"
       THEN UNCHANGED <<outcome, written>>
       ELSE /\ written' = [written EXCEPT ![f] = OrderById(df)]
            /\ outcome' = [outcome EXCEPT ![f] = "written"]
    /\ f' = f + 1
    /\ pc' = AfterPage
    /\ UNCHANGED <<files, df, i>>

Next ==
    \/ Start
    \/ SkipPage
    \/ ExtractFails
    \/ ExtractAndSort
    \/ ScanStep
    \/ Normalise
    \/ Write

Spec == Init /\ [][Next]_vars

\* The interpreter runs the loops of a page to their end: an enabled step of
\* the page's computation is taken.
FairSpec == Spec /\ WF_vars(ScanStep) /\ WF_vars(Normalise)

\* ------------------------------------------------------------- properties
InPage == pc \in {"scan", "normalise", "write"}

\* The ordering computation of the current page has finished.
Finished == pc = "write"

Order(k) == df[k].sequential_order

\* C1: two regions side by side on the same page_side (identical y_min and
\* y_max, non-overlapping x ranges) keep the initial sort order: the region
\* with the smaller x_min gets 0 and the other gets 1.
NoOpScenario ==
    (/\ Finished
     /\ Len(df) = 2
     /\ df[1].page_side = df[2].page_side
     /\ df[1].y_min = df[2].y_min
     /\ df[1].y_max = df[2].y_max
     /\ df[1].x_max < df[2].x_min)
    => (Order(1) = 0 /\ Order(2) = 1)

\* C2: every adjacent pair on the same page_side that the pass compared (its
\* first row was not locked by the pair before it), whose second region lies
\* vertically strictly inside the first (y_max <= and y_min >) and is
\* horizontally offset from it, has exchanged its sequential_order values, so
\* that the second region ranks before the first; and the page {A, B} of the
\* worked example ends with B = 0, A = 1.
ContainmentSwapRule ==
    /\ InPage =>
         \A j \in 1..(Len(df) - 1) :
            (/\ j <= i
             /\ ~(df[j].swapped /\ Order(j) = j - 2)
             /\ df[j].page_side = df[j + 1].page_side
             /\ df[j + 1].y_max <= df[j].y_max
             /\ df[j + 1].y_min > df[j].y_min
             /\ (df[j + 1].x_min > df[j].x_min \/ df[j + 1].x_max < df[j].x_max))
            => (Order(j) = j /\ Order(j + 1) = j - 1 /\ Order(j + 1) < Order(j))
    /\ (Finished /\ files[f] = ScenarioPage) => OrderById(df) = (1 :> 1) @@ (2 :> 0)

ContainmentSwapWitness ==
    /\ Finished
    /\ files[f] = ScenarioPage
    /\ df[1].id = 1 /\ df[1].swapped
    /\ df[2].id = 2 /\ df[2].swapped

ContainmentSwapGridWitness ==
    /\ Finished
    /\ files[f] # ScenarioPage
    /\ \E j \in 1..(Len(df) - 1) :
          /\ df[j].page_side = df[j + 1].page_side
          /\ df[j + 1].y_max <= df[j].y_max /\ df[j + 1].y_min > df[j].y_min
          /\ df[j + 1].x_min = df[j].x_min /\ df[j + 1].x_max < df[j].x_max
          /\ Order(j + 1) < Order(j)

\* The regions of the table arranged by their sequential_order.
FinalSequence(d) ==
    [k \in 1..Len(d) |-> d[CHOOSE r \in DOMAIN d : d[r].sequential_order = k - 1]]

\* C3: once the ordering computation has finished, running the comparison
\* pass again over the regions arranged in their output sequential_order
\* performs zero swaps.
Idempotence ==
    Finished =>
        \A k \in DOMAIN df : ~ScanFrom(AddColumns(FinalSequence(df)), 0)[k].swapped

Presentations(n) ==
    {p \in [1..n -> 1..n] : \A a, b \in 1..n : a # b => p[a] # p[b]}

ResultFor(page) == OrderById(OrderRows(SortValues(ExtractFeatures(page))))

\* C4: the sequential_order assigned to each region id is the same for every
\* order in which the regions of the page are presented, also when regions
\* share the same (page_side, y_min, x_min) key.
InsertionOrderDeterminism ==
    Finished =>
        \A p \in Presentations(Len(files[f].regions)) :
            ResultFor([files[f] EXCEPT
                         !.regions = [k \in DOMAIN files[f].regions |->
                                         files[f].regions[p[k]]]])
              = OrderById(df)

\* C5: a LEFT region and a RIGHT region never hold each other's position as
\* sequential_order, whatever their coordinates, and in the final result
\* every LEFT region has a lower sequential_order than every RIGHT region.
SideInvariant ==
    InPage =>
        \A a, b \in DOMAIN df :
            (df[a].page_side = 0 /\ df[b].page_side = 1) =>
                /\ ~(Order(a) = b - 1 /\ Order(b) = a - 1)
                /\ Finished => Order(a) < Order(b)

SideInvariantWitness ==
    /\ Finished
    /\ \E j \in 1..(Len(df) - 1) :
          /\ df[j].page_side = 0
          /\ df[j + 1].page_side = 1
          /\ df[j + 1].y_max <= df[j].y_max /\ df[j + 1].y_min >= df[j].y_min
          /\ (df[j + 1].x_min > df[j].x_min \/ df[j + 1].x_max < df[j].x_max)

\* C6: the ordering computation of a page always comes to its end, and the
\* comparison pass never goes beyond the n - 1 adjacent pairs of the n
\* regions (one pass, within the bound of n passes).
Termination ==
    /\ (pc \in {"scan", "normalise"}) ~> (pc = "write")
    /\ [](pc = "scan" => i < Len(df) - 1)

TerminationWitness ==
    /\ Finished
    /\ Len(df) >= 3
    /\ i = Len(df) - 1
    /\ \E k \in DOMAIN df : df[k].swapped

\* C7: when the batch has ended, every page that has a reading order and at
\* least one region of well-formed geometry has been ordered and written,
\* whatever malformed regions that page or another page holds.
BatchErrorIsolation ==
    pc \in {"done", "aborted"} =>
        \A k \in DOMAIN files :
            (/\ OrderedGroupTruthy(files[k])
             /\ \E r \in DOMAIN files[k].regions :
                   ~RaisesOnRegion(files[k].regions[r].points))
            => outcome[k] = "written"

\* C8: a processed page without text regions is skipped and nothing is
\* written for it, and a page is skipped only if it has no text region.
EmptyPageHandling ==
    \A k \in DOMAIN files :
        /\ (k < f /\ Len(files[k].regions) = 0)
              => (outcome[k] = "skipped" /\ written[k] = <<>>)
        /\ outcome[k] = "skipped" => Len(files[k].regions) = 0

\* C9: when the ordering computation of a page with n regions has finished,
\* the sequential_order values are exactly 0..n-1, one region each.
RankPermutation ==
    Finished =>
        /\ {Order(k) : k \in DOMAIN df} = 0..(Len(df) - 1)
        /\ \A a, b \in DOMAIN df : a # b => Order(a) # Order(b)

RankPermutationWitness ==
    /\ Finished
    /\ Len(df) >= 3
    /\ df[1].swapped /\ df[2].swapped
    /\ ~df[3].swapped

\* C10: the swapped rows form disjoint adjacent pairs that hold each other's
\* position (no region takes part in two swaps); in the final result every
\* sequential_order differs from the row's position in the initial sort by
\* at most 1, and a region nested in its two successive predecessors is not
\* ranked before both of them.
SwapLock ==
    InPage =>
        /\ \A k \in DOMAIN df :
              df[k].swapped =>
                 \/ /\ k < Len(df)
                    /\ df[k + 1].swapped
                    /\ Order(k) = k /\ Order(k + 1) = k - 1
                 \/ /\ k > 1
                    /\ df[k - 1].swapped
                    /\ Order(k) = k - 2 /\ Order(k - 1) = k - 1
        /\ Finished =>
              /\ \A k \in DOMAIN df : Order(k) - (k - 1) \in {-1, 0, 1}
              /\ \A k \in 3..Len(df) :
                    (SwapCondition(df[k - 2], df[k - 1]) /\ SwapCondition(df[k - 1], df[k]))
                    => ~(Order(k) < Order(k - 1) /\ Order(k) < Order(k - 2))

SwapLockWitness ==
    /\ Finished
    /\ Len(df) >= 3
    /\ SwapCondition(df[1], df[2]) /\ SwapCondition(df[2], df[3])
    /\ df[1].swapped /\ df[2].swapped /\ ~df[3].swapped
    /\ Order(3) = 2

====
